---- MODULE Spec2Model ----
(***************************************************************************)
(* Model of dobslit_senai_a3/__init__.py: the Grover circuit builder       *)
(* (class GroverAlgorithm), its boolean gate helpers and the result        *)
(* formatter organize_qiskit_result.                                       *)
(*                                                                         *)
(* Three specifications share the variables:                               *)
(*   Spec       construction (__init__/prepare/create_qubit) and build_all *)
(*   SpecLogic  logic_not / logic_and / logic_or on basis-state values     *)
(*   SpecFmt    organize_qiskit_result                                     *)
(***************************************************************************)
EXTENDS Integers, Sequences, FiniteSets, TLC

VARIABLES
    circ,               \* self.circ: the ordered gate operations
    cregs,              \* self.circ: names of the registers added to it
    qubits,             \* self.qubits
    clbits,             \* self.clbits
    names,              \* self.names
    overrides,          \* the methods the concrete subclass overrides
    pc,                 \* position in the running method
    err,                \* the exception raised, "" when none
    target_qubit,       \* build_all's target_qubit argument
    n_iterations,       \* build_all's n_iterations argument
    i,                  \* build_all's loop variable (iterations completed)
    non_target_qubits,  \* build_all's local of line 126
    bits,               \* basis-state value of every qubit
    entry,              \* the values at entry of the last helper call
    pending,            \* gates appended by the last helper call, not yet applied
    call,               \* the helper call made: [fn, operands, target]
    result_counts,      \* organize_qiskit_result's argument: the dict's items in order
    registers_names,    \* organize_qiskit_result's argument
    out_dict,           \* organize_qiskit_result's local out_dict
    pos,                \* keys of result_counts already processed
    table               \* the DataFrame returned: a sequence of [index, row]

bvars == <<circ, cregs, qubits, clbits, names, overrides, target_qubit,
           n_iterations, i, non_target_qubits>>
lvars == <<bits, entry, pending, call>>
fvars == <<result_counts, registers_names, out_dict, pos, table>>
vars  == <<bvars, lvars, fvars, pc, err>>

\* ---------------------------------------------------------------- bounds
MaxQubits == 2
MaxIter == 2
MaxOperands == 2
MaxKeys == 2
MaxRegs == 2

Labels == {"a", "b"}

\* ------------------------------------------------------------- registers
QReg(label) == [kind |-> "q", label |-> label]
CReg(label) == [kind |-> "c", label |-> label]
phase_ancilla == [kind |-> "q", label |-> "phase_ancilla"]
None == [kind |-> "none", label |-> ""]

\* ----------------------------------------------------------------- gates
Op(gate, qargs, cargs) == [gate |-> gate, qargs |-> qargs, cargs |-> cargs]
Barrier == Op("barrier", <<>>, <<>>)
H(q) == Op("h", <<q>>, <<>>)
Z(q) == Op("z", <<q>>, <<>>)
X(q) == Op("x", <<q>>, <<>>)
CZ(ctrl, tgt) == Op("cz", <<ctrl, tgt>>, <<>>)
MCX(ctrls, tgt) == Op("mcx", ctrls \o <<tgt>>, <<>>)
MeasureOp(q, c) == Op("measure", <<q>>, <<c>>)
XEach(qs) == [k \in 1..Len(qs) |-> X(qs[k])]

\* The body a subclass gives to an overridden hook, kept as one opaque block.
HookBlock(name) == <<Op(name, <<>>, <<>>)>>

\* The variables of the helpers and of the formatter, where they are not in use.
LogicIdle ==
    bits = <<>> /\ entry = <<>> /\ pending = <<>> /\ call = None

FmtIdle ==
    /\ result_counts = <<>> /\ registers_names = <<>> /\ out_dict = <<>>
    /\ pos = 0 /\ table = <<>>

\* ------------------------------------------------- GroverAlgorithm.__init__
Init ==
    /\ circ = <<H(phase_ancilla)>>
    /\ cregs = {phase_ancilla}
    /\ qubits = <<>> /\ clbits = <<>> /\ names = <<>>
    /\ overrides \in SUBSET {"prepare", "build_search_space", "revert_search_space"}
    /\ pc = "prepare" /\ err = ""
    /\ target_qubit = None /\ n_iterations = 0 /\ i = 0
    /\ non_target_qubits = <<>>
    /\ LogicIdle /\ FmtIdle

Raise(e) == pc' = "raised" /\ err' = e

\* prepare() of the base class
PrepareNotImplemented ==
    /\ pc = "prepare" /\ "prepare" \notin overrides
    /\ Raise("NotImplementedError")
    /\ UNCHANGED <<bvars, lvars, fvars>>

\* create_qubit(label), called by the subclass's prepare()
CreateQubitAppend(label) ==
    /\ cregs' = cregs \cup {QReg(label), CReg(label)}
    /\ qubits' = Append(qubits, QReg(label))
    /\ clbits' = Append(clbits, CReg(label))
    /\ names' = Append(names, label)

CreateQubit ==
    /\ pc = "prepare" /\ "prepare" \in overrides
    /\ Len(qubits) < MaxQubits
    /\ \E label \in Labels : CreateQubitAppend(label)
    /\ UNCHANGED <<circ, overrides, target_qubit, n_iterations, i,
                   non_target_qubits, lvars, fvars, pc, err>>

\* circ.add_register of line 59 is the SDK's: create_qubit has no check of
\* its own, and the SDK may refuse a register name the circuit already holds.
AddRegisterRefuses ==
    /\ pc = "prepare" /\ "prepare" \in overrides
    /\ Len(qubits) < MaxQubits
    /\ \E label \in Labels : QReg(label) \in cregs
    /\ Raise("CircuitError")
    /\ UNCHANGED <<bvars, lvars, fvars>>

PrepareReturn ==
    /\ pc = "prepare" /\ "prepare" \in overrides
    /\ pc' = "constructed"
    /\ UNCHANGED <<bvars, lvars, fvars, err>>

\* ------------------------------------------------ GroverAlgorithm.build_all
\* The call: target_qubit is one of the created registers (None when there
\* is none to pass).
BuildAll ==
    /\ pc = "constructed"
    /\ \E t \in (IF qubits = <<>> THEN {None} ELSE {qubits[k] : k \in DOMAIN qubits}),
          n \in 0..MaxIter :
            target_qubit' = t /\ n_iterations' = n
    /\ i' = 0
    /\ pc' = "for"
    /\ UNCHANGED <<circ, cregs, qubits, clbits, names, overrides,
                   non_target_qubits, lvars, fvars, err>>

\* Faulty variant: one iteration too many.
For_OffByOne ==
    /\ pc = "for"
    /\ pc' = IF i <= n_iterations THEN "build" ELSE "final"
    /\ UNCHANGED <<bvars, lvars, fvars, err>>

\* line 115: for i in range(n_iterations)
For ==
    /\ pc = "for"
    /\ pc' = IF i < n_iterations THEN "build" ELSE "final"
    /\ UNCHANGED <<bvars, lvars, fvars, err>>

\* A hook call after a barrier: the subclass's block, or the base class's raise.
CallHook(name, next) ==
    /\ IF name \in overrides
         THEN /\ circ' = circ \o <<Barrier>> \o HookBlock(name)
              /\ pc' = next /\ err' = err
         ELSE /\ circ' = Append(circ, Barrier)
              /\ Raise("NotImplementedError")
    /\ UNCHANGED <<cregs, qubits, clbits, names, overrides, target_qubit,
                   n_iterations, i, non_target_qubits, lvars, fvars>>

\* lines 117-118
BuildSearchSpace ==
    pc = "build" /\ CallHook("build_search_space", "mark")

\* lines 119-120: cz(target_qubit, phase_ancilla); target_qubit[0] of None raises
MarkGates(t) == <<Barrier, CZ(t, phase_ancilla)>>

Mark ==
    /\ pc = "mark"
    /\ IF target_qubit = None
         THEN /\ circ' = Append(circ, Barrier)
              /\ Raise("TypeError")
         ELSE /\ circ' = circ \o MarkGates(target_qubit)
              /\ pc' = "revert" /\ err' = err
    /\ UNCHANGED <<cregs, qubits, clbits, names, overrides, target_qubit,
                   n_iterations, i, non_target_qubits, lvars, fvars>>

\* lines 121-123
RevertSearchSpace ==
    /\ pc = "revert"
    /\ IF "revert_search_space" \in overrides
         THEN /\ circ' = circ \o <<Barrier>> \o HookBlock("revert_search_space")
                              \o <<Barrier>>
              /\ pc' = "diffusion" /\ err' = err
         ELSE /\ circ' = Append(circ, Barrier)
              /\ Raise("NotImplementedError")
    /\ UNCHANGED <<cregs, qubits, clbits, names, overrides, target_qubit,
                   n_iterations, i, non_target_qubits, lvars, fvars>>

\* line 126
NonTargetQubits(qs, t) == SelectSeq(qs, LAMBDA q : q # t)

\* Faulty variant: the registers are not flipped back.
DiffusionGates_NoUnflip(qs) ==
    XEach(qs) \o <<Z(phase_ancilla), MCX(qs, phase_ancilla), Z(phase_ancilla)>>

\* lines 127-133
DiffusionGates(qs) ==
    XEach(qs) \o <<Z(phase_ancilla), MCX(qs, phase_ancilla), Z(phase_ancilla)>>
              \o XEach(qs)

\* lines 126-133, the rest of one iteration
Diffusion ==
    /\ pc = "diffusion"
    /\ non_target_qubits' = NonTargetQubits(qubits, target_qubit)
    /\ circ' = circ \o DiffusionGates(qubits)
    /\ i' = i + 1
    /\ pc' = "for"
    /\ UNCHANGED <<cregs, qubits, clbits, names, overrides, target_qubit,
                   n_iterations, lvars, fvars, err>>

\* lines 134-135
FinalBuildSearchSpace ==
    pc = "final" /\ CallHook("build_search_space", "measure")

\* Faulty variant: the last register is not measured.
MeasureGates_SkipLast(qs, cs, ns) ==
    [k \in 1..(Len(ns) - 1) |-> MeasureOp(qs[k], cs[k])]

\* lines 138-140
MeasureGates(qs, cs, ns) == [k \in 1..Len(ns) |-> MeasureOp(qs[k], cs[k])]

Measure ==
    /\ pc = "measure"
    /\ circ' = circ \o <<Barrier>> \o MeasureGates(qubits, clbits, names)
    /\ pc' = "returned"
    /\ UNCHANGED <<cregs, qubits, clbits, names, overrides, target_qubit,
                   n_iterations, i, non_target_qubits, lvars, fvars, err>>

Next ==
    \/ PrepareNotImplemented
    \/ CreateQubit
    \/ AddRegisterRefuses
    \/ PrepareReturn
    \/ BuildAll
    \/ For
    \/ BuildSearchSpace
    \/ Mark
    \/ RevertSearchSpace
    \/ Diffusion
    \/ FinalBuildSearchSpace
    \/ Measure

Spec == Init /\ [][Next]_vars

\* ------------------------------------------- gates on basis-state values
\* What the backend does to a computational-basis value v (qubit -> BOOLEAN):
\* X flips its qubit, a multi-controlled X flips its last qubit when every
\* control is true, and Z, CZ and barriers only change phases.
Controls(op) == SubSeq(op.qargs, 1, Len(op.qargs) - 1)
Last(s) == s[Len(s)]

ApplyGate(op, v) ==
    CASE op.gate = "x" -> [v EXCEPT ![op.qargs[1]] = ~@]
      [] op.gate = "mcx" ->
            IF \A k \in DOMAIN Controls(op) : v[Controls(op)[k]]
            THEN [v EXCEPT ![Last(op.qargs)] = ~@]
            ELSE v
      [] OTHER -> v

RECURSIVE RunGates(_, _)
RunGates(ops, v) ==
    IF ops = <<>> THEN v ELSE RunGates(Tail(ops), ApplyGate(Head(ops), v))

\* ------------------------------------------------------ claims of Spec
NoBarrier(s) == SelectSeq(s, LAMBDA o : o.gate # "barrier")
OfGate(s, g) == SelectSeq(s, LAMBDA o : o.gate = g)
Suffix(s, n) == SubSeq(s, Len(s) - n + 1, Len(s))

\* C1: the circuit one build_all call returns holds exactly k = len(qubits)
\* measurements; the m-th reads the m-th declared qubit register into the
\* classical register of the same create_qubit call (same label); and no
\* measurement, at any time, reads the Phase Ancilla.
C1_Measurements ==
    /\ \A k \in DOMAIN circ :
          circ[k].gate = "measure" =>
              \A q \in DOMAIN circ[k].qargs : circ[k].qargs[q] # phase_ancilla
    /\ pc = "returned" =>
          LET ms == OfGate(circ, "measure") IN
          /\ Len(ms) = Len(qubits)
          /\ Len(qubits) = Len(names) /\ Len(clbits) = Len(names)
          /\ \A m \in DOMAIN ms :
                /\ ms[m].qargs = <<qubits[m]>>
                /\ ms[m].cargs = <<clbits[m]>>
                /\ qubits[m] = QReg(names[m])
                /\ clbits[m] = CReg(names[m])

C1_Witness ==
    pc = "returned" /\ Len(qubits) = 2 /\ n_iterations >= 1
    /\ Len(OfGate(circ, "measure")) = 2

\* C2: the gates of the returned circuit, after __init__'s H on the ancilla,
\* are n times [build_search_space, CZ(target, ancilla), revert_search_space,
\* diffusion], then build_search_space, then the measurements; so the build
\* hook runs n+1 times and the revert hook n times, each revert hook directly
\* after a build hook and the CZ, and for n = 0 nothing but the build hook
\* and the measurements are appended.
C2_Order ==
    pc = "returned" =>
        LET g == NoBarrier(circ)
            n == n_iterations
            iter == HookBlock("build_search_space")
                      \o <<CZ(target_qubit, phase_ancilla)>>
                      \o HookBlock("revert_search_space")
            body == Tail(g)
            ms == OfGate(circ, "measure")
            D == 3 + Len(DiffusionGates(qubits))
        IN
        /\ g[1] = H(phase_ancilla)
        /\ Len(body) = n * D + 1 + Len(ms)
        /\ \A r \in 0..(n - 1) :
              /\ SubSeq(body, r * D + 1, r * D + 3) = iter
              /\ \A d \in 4..D :
                    body[r * D + d].gate \in {"x", "z", "mcx"}
        /\ SubSeq(body, n * D + 1, n * D + 1) = HookBlock("build_search_space")
        /\ SubSeq(body, n * D + 2, Len(body)) = ms
        /\ Len(OfGate(circ, "build_search_space")) = n + 1
        /\ Len(OfGate(circ, "revert_search_space")) = n
        /\ Len(OfGate(circ, "cz")) = n
        /\ n = 0 => body = HookBlock("build_search_space") \o ms

C2_Witness ==
    pc = "returned" /\ n_iterations = 2 /\ i = 2
    /\ Len(OfGate(circ, "revert_search_space")) = 2

C9_FailsLoudly ==
    LET incomplete ==
            \/ qubits = <<>>
            \/ ~({"build_search_space", "revert_search_space"} \subseteq overrides)
    IN  /\ pc = "returned" => ~incomplete
        /\ (pc = "raised" /\ "prepare" \in overrides /\ incomplete
                /\ qubits # <<>> /\ err # "CircuitError")
              => err = "NotImplementedError"

\* C10: when an iteration ends, the circuit ends with the revert hook, a
\* barrier and the diffusion step: X on every declared register, Z on the
\* ancilla, a multi-controlled X from all declared registers onto the
\* ancilla, Z on the ancilla, X on every declared register. The ancilla is
\* not among the flipped or control qubits, line 126 adds nothing, and on
\* basis values the step gives every declared register its value back.
C10_Diffusion ==
    (pc = "for" /\ i >= 1) =>
        LET k == Len(qubits)
            d == Suffix(circ, 2 * k + 3)
            regs == {qubits[q] : q \in DOMAIN qubits} \cup {phase_ancilla}
        IN
        /\ Suffix(circ, 2 * k + 5) =
              HookBlock("revert_search_space") \o <<Barrier>> \o d
        /\ \A q \in 1..k :
              /\ d[q] = X(qubits[q]) /\ d[k + 3 + q] = X(qubits[q])
              /\ qubits[q] # phase_ancilla
        /\ d[k + 1] = Z(phase_ancilla)
        /\ d[k + 2] = Op("mcx", qubits \o <<phase_ancilla>>, <<>>)
        /\ d[k + 3] = Z(phase_ancilla)
        /\ \A v \in [regs -> BOOLEAN] :
              \A q \in 1..k : RunGates(d, v)[qubits[q]] = v[qubits[q]]

C10_Witness ==
    pc = "for" /\ i = 2 /\ Len(qubits) = 2 /\ target_qubit = qubits[2]
    /\ non_target_qubits = <<qubits[1]>>

\* ------------------------------------------------------ the logic helpers
\* An instance whose prepare() created MaxOperands + 1 registers, inside a
\* hook that composes gates; bits holds a basis-state value of each register.
LogicQubits == [k \in 1..(MaxOperands + 1) |-> QReg(ToString(k))]
LogicRegs == {LogicQubits[k] : k \in DOMAIN LogicQubits}

\* The operand lists a caller can pass with target t: distinct registers
\* other than t, at least one.
OperandLists(t) ==
    UNION {{s \in [1..n -> LogicRegs \ {t}] :
               \A a, b \in 1..n : a # b => s[a] # s[b]} : n \in 1..MaxOperands}

InitLogic ==
    /\ circ = <<H(phase_ancilla)>>
    /\ cregs = {phase_ancilla} \cup LogicRegs
                  \cup {CReg(q.label) : q \in LogicRegs}
    /\ qubits = LogicQubits
    /\ clbits = [k \in DOMAIN LogicQubits |-> CReg(LogicQubits[k].label)]
    /\ names = [k \in DOMAIN LogicQubits |-> LogicQubits[k].label]
    /\ overrides = {"prepare", "build_search_space", "revert_search_space"}
    /\ pc = "hook" /\ err = ""
    /\ target_qubit = None /\ n_iterations = 0 /\ i = 0
    /\ non_target_qubits = <<>>
    /\ bits \in [LogicRegs -> BOOLEAN]
    /\ entry = bits
    /\ pending = <<>> /\ call = None
    /\ FmtIdle

\* line 91
LogicNotGates(target) == <<X(target)>>

\* Faulty variant: the first operand is not a control.
LogicAndGates_DropsOperand(operands, target) == <<MCX(Tail(operands), target)>>

\* line 95
LogicAndGates(operands, target) == <<MCX(operands, target)>>

\* Faulty variant: the final NOT on the target is missing (a NOR).
LogicOrGates_NoFinalNot(operands, target) ==
    XEach(operands) \o <<MCX(operands, target)>> \o XEach(operands)

\* lines 99-103
LogicOrGates(operands, target) ==
    XEach(operands) \o <<MCX(operands, target)>> \o XEach(operands)
                    \o <<X(target)>>

Helper(fn, operands, target, gates) ==
    /\ call' = [fn |-> fn, operands |-> operands, target |-> target]
    /\ entry' = bits
    /\ circ' = circ \o gates
    /\ pending' = gates
    /\ UNCHANGED <<cregs, qubits, clbits, names, overrides, target_qubit,
                   n_iterations, i, non_target_qubits, bits, fvars, pc, err>>

LogicNot ==
    /\ pc = "hook" /\ call = None
    /\ \E t \in LogicRegs : Helper("logic_not", <<>>, t, LogicNotGates(t))

LogicAnd ==
    /\ pc = "hook" /\ call = None
    /\ \E t \in LogicRegs : \E ops \in OperandLists(t) :
          Helper("logic_and", ops, t, LogicAndGates(ops, t))

LogicOr ==
    /\ pc = "hook" /\ call = None
    /\ \E t \in LogicRegs : \E ops \in OperandLists(t) :
          Helper("logic_or", ops, t, LogicOrGates(ops, t))

\* The backend applies the next appended gate to the basis-state value.
RunGate ==
    /\ pc = "hook" /\ pending # <<>>
    /\ bits' = ApplyGate(Head(pending), bits)
    /\ pending' = Tail(pending)
    /\ UNCHANGED <<bvars, fvars, entry, call, pc, err>>

NextLogic ==
    \/ LogicNot
    \/ LogicAnd
    \/ LogicOr
    \/ RunGate

SpecLogic == InitLogic /\ [][NextLogic]_vars

\* ---------------------------------------------------- claims of SpecLogic
Ran(fn) == call # None /\ call.fn = fn /\ pending = <<>>
AnyTrue(v, ops) == \E k \in DOMAIN ops : v[ops[k]]
AllTrue(v, ops) == \A k \in DOMAIN ops : v[ops[k]]

\* C6: after logic_or(operands, target) with target false on entry, target is
\* true iff at least one operand was true, and every other register (every
\* operand included) has the value it had on entry.
C6_LogicOr ==
    (Ran("logic_or") /\ ~entry[call.target]) =>
        /\ bits[call.target] = AnyTrue(entry, call.operands)
        /\ \A q \in LogicRegs \ {call.target} : bits[q] = entry[q]

C6_Witness ==
    /\ Ran("logic_or") /\ ~entry[call.target]
    /\ Len(call.operands) = 2
    /\ entry[call.operands[1]] /\ ~entry[call.operands[2]]
    /\ bits[call.target]

\* C7: after logic_and(operands, target), target holds its entry value XOR the
\* AND of the operands (so, false on entry, it is true iff all operands were
\* true), and every other register has the value it had on entry.
C7_LogicAnd ==
    Ran("logic_and") =>
        /\ bits[call.target] = (entry[call.target] # AllTrue(entry, call.operands))
        /\ ~entry[call.target] =>
              (bits[call.target] <=> AllTrue(entry, call.operands))
        /\ \A q \in LogicRegs \ {call.target} : bits[q] = entry[q]

C7_Witness ==
    /\ Ran("logic_and") /\ ~entry[call.target]
    /\ Len(call.operands) = 2 /\ AllTrue(entry, call.operands)
    /\ bits[call.target]

\* ------------------------------------------------ organize_qiskit_result
\* A bit-string is a sequence of characters; the backend joins one substring
\* per classical register with single spaces.
Bit == {"0", "1"}
RECURSIVE Join(_)
Join(parts) ==
    IF Len(parts) = 1 THEN parts[1]
    ELSE parts[1] \o <<" ">> \o Join(Tail(parts))

\* The keys of one counts mapping: outcomes of m one-bit registers (the backend
\* emits one substring per classical register, the same m for every key).
Keys(m) == {Join([k \in 1..m |-> <<b[k]>>]) : b \in [1..m -> Bit]}
Freqs == {324, 700}

\* The items of a dict, in insertion order: distinct keys.
CountsOver(keys) ==
    UNION {{c \in [1..n -> [key : keys, freq : Freqs]] :
               \A a, b \in 1..n : a # b => c[a].key # c[b].key} : n \in 0..MaxKeys}

NameLists == UNION {[1..n -> Labels] : n \in 0..MaxRegs}

BuilderIdle ==
    /\ circ = <<>> /\ cregs = {} /\ qubits = <<>> /\ clbits = <<>> /\ names = <<>>
    /\ overrides = {} /\ target_qubit = None /\ n_iterations = 0 /\ i = 0
    /\ non_target_qubits = <<>>

\* line 21
InitFmt ==
    /\ BuilderIdle /\ LogicIdle
    /\ \E m \in 1..MaxRegs : result_counts \in CountsOver(Keys(m))
    /\ registers_names \in NameLists
    /\ out_dict = [c \in {registers_names[k] : k \in DOMAIN registers_names}
                           \cup {"$freq"} |-> <<>>]
    /\ pos = 0 /\ table = <<>>
    /\ pc = "keys" /\ err = ""

\* str.split(' ') of line 25: cut at every space, empty pieces kept
RECURSIVE Split(_)
Split(s) ==
    IF \A k \in DOMAIN s : s[k] # " " THEN <<s>>
    ELSE LET c == CHOOSE k \in DOMAIN s :
                      s[k] = " " /\ \A h \in 1..(k - 1) : s[h] # " "
         IN  <<SubSeq(s, 1, c - 1)>> \o Split(SubSeq(s, c + 1, Len(s)))

\* Faulty variant: the substrings are not taken from the end.
RegData_Forward(reg_data_list, idx) == reg_data_list[idx]

\* line 34: reg_data_list[-1-i], for the 1-based position i
RegData(reg_data_list, idx) == reg_data_list[Len(reg_data_list) - idx + 1]

\* lines 33-34, from position idx on
RECURSIVE AppendRegs(_, _, _, _)
AppendRegs(d, ns, reg_data_list, idx) ==
    IF idx > Len(reg_data_list) THEN d
    ELSE AppendRegs([d EXCEPT ![ns[idx]] = Append(@, RegData(reg_data_list, idx))],
                    ns, reg_data_list, idx + 1)

\* lines 23-36: one pass of the loop over the keys; registers_names[i] raises
\* when the key has more substrings than there are names
OrganizeKey ==
    /\ pc = "keys" /\ pos < Len(result_counts)
    /\ LET item == result_counts[pos + 1]
           reg_data_list == Split(item.key)
       IN  IF Len(reg_data_list) > Len(registers_names)
           THEN Raise("IndexError") /\ UNCHANGED <<out_dict, pos>>
           ELSE /\ out_dict' =
                     [AppendRegs(out_dict, registers_names, reg_data_list, 1)
                         EXCEPT !["$freq"] = Append(@, item.freq)]
                /\ pos' = pos + 1
                /\ UNCHANGED <<pc, err>>
    /\ UNCHANGED <<bvars, lvars, result_counts, registers_names, table>>

\* pd.DataFrame(out_dict): a row per position, indexed from 0
DataFrame(d) ==
    [r \in 1..Len(d["$freq"]) |->
        [index |-> r - 1, row |-> [c \in DOMAIN d |-> d[c][r]]]]

Perms(n) == {f \in [1..n -> 1..n] : \A a, b \in 1..n : a # b => f[a] # f[b]}

\* Faulty variant: ascending order.
SortValues_Ascending(df) ==
    {[r \in 1..Len(df) |-> df[f[r]]] : f \in
        {g \in Perms(Len(df)) :
            \A r \in 1..(Len(df) - 1) :
                df[g[r]].row["$freq"] <= df[g[r + 1]].row["$freq"]}}

\* sort_values('$freq', ascending=False): the rows, with their indexes, in an
\* order of non-increasing $freq; the sort is not stable, so any such order
SortValues(df) ==
    {[r \in 1..Len(df) |-> df[f[r]]] : f \in
        {g \in Perms(Len(df)) :
            \A r \in 1..(Len(df) - 1) :
                df[g[r]].row["$freq"] >= df[g[r + 1]].row["$freq"]}}

\* Faulty variant: the rows keep the indexes they were built with.
ResetIndex_Keep(df) == df

\* reset_index(drop=True)
ResetIndex(df) == [r \in 1..Len(df) |-> [index |-> r - 1, row |-> df[r].row]]

\* line 38; the columns of a DataFrame must have one length
OrganizeReturn ==
    /\ pc = "keys" /\ pos = Len(result_counts)
    /\ IF \E c \in DOMAIN out_dict : Len(out_dict[c]) # Len(out_dict["$freq"])
       THEN Raise("ValueError") /\ UNCHANGED table
       ELSE /\ \E t \in SortValues(DataFrame(out_dict)) : table' = ResetIndex(t)
            /\ pc' = "returned" /\ err' = err
    /\ UNCHANGED <<bvars, lvars, result_counts, registers_names, out_dict, pos>>

NextFmt ==
    \/ OrganizeKey
    \/ OrganizeReturn

SpecFmt == InitFmt /\ [][NextFmt]_vars

\* ------------------------------------------------------ claims of SpecFmt
\* C3: counts {"1 0": 700, "0 1": 324} with register_names ["b", "a"] give the
\* row (b = "1", a = "0", $freq = 700) and then (b = "0", a = "1", $freq = 324).
C3_Example ==
    (/\ pc = "returned"
     /\ result_counts = <<[key |-> <<"1", " ", "0">>, freq |-> 700],
                          [key |-> <<"0", " ", "1">>, freq |-> 324]>>
     /\ registers_names = <<"b", "a">>) =>
        /\ Len(table) = 2
        /\ table[1].row["b"] = <<"1">> /\ table[1].row["a"] = <<"0">>
        /\ table[1].row["$freq"] = 700 /\ table[1].index = 0
        /\ table[2].row["b"] = <<"0">> /\ table[2].row["a"] = <<"1">>
        /\ table[2].row["$freq"] = 324 /\ table[2].index = 1
        /\ DOMAIN table[1].row = {"a", "b", "$freq"}

\* C3 as the code has it: the last substring goes to register_names[0], so
\* the rows are (b = "0", a = "1", $freq = 700) and then
\* (b = "1", a = "0", $freq = 324), indexed 0 and 1.
C3_ExampleReversed ==
    (/\ pc = "returned"
     /\ result_counts = <<[key |-> <<"1", " ", "0">>, freq |-> 700],
                          [key |-> <<"0", " ", "1">>, freq |-> 324]>>
     /\ registers_names = <<"b", "a">>) =>
        /\ Len(table) = 2
        /\ table[1].row["b"] = <<"0">> /\ table[1].row["a"] = <<"1">>
        /\ table[1].row["$freq"] = 700 /\ table[1].index = 0
        /\ table[2].row["b"] = <<"1">> /\ table[2].row["a"] = <<"0">>
        /\ table[2].row["$freq"] = 324 /\ table[2].index = 1
        /\ DOMAIN table[1].row = {"a", "b", "$freq"}

C3_Witness ==
    /\ pc = "returned"
    /\ result_counts = <<[key |-> <<"1", " ", "0">>, freq |-> 700],
                         [key |-> <<"0", " ", "1">>, freq |-> 324]>>
    /\ registers_names = <<"b", "a">>
    /\ Len(table) = 2

\* The substrings of a key, cut at the spaces without Split: the pieces
\* between consecutive space positions.
Spaces(s) == {k \in DOMAIN s : s[k] = " "}
Piece(s, p) ==
    LET cuts == Spaces(s) \cup {0, Len(s) + 1}
        lo == CHOOSE a \in cuts : Cardinality({c \in cuts : c < a}) = p - 1
        hi == CHOOSE a \in cuts : Cardinality({c \in cuts : c < a}) = p
    IN  SubSeq(s, lo + 1, hi - 1)
NPieces(s) == Cardinality(Spaces(s)) + 1

\* C4: the returned table has exactly one row per key of the mapping: the
\* keys and the rows pair off one to one so that a key's row holds the key's
\* count in $freq and, when the key has as many substrings as there are
\* register names, holds under register_names[i] the i-th substring counted
\* from the end (the last substring under register_names[0]).
C4_OneRowPerKey ==
    pc = "returned" =>
        /\ Len(table) = Len(result_counts)
        /\ \E f \in Perms(Len(result_counts)) :
              \A p \in DOMAIN result_counts :
                  LET key == result_counts[p].key
                      row == table[f[p]].row
                      m == NPieces(key)
                  IN  /\ row["$freq"] = result_counts[p].freq
                      /\ m = Len(registers_names) =>
                            \A n \in 1..m :
                                row[registers_names[n]] = Piece(key, m - n + 1)

C4_Witness ==
    /\ pc = "returned" /\ Len(result_counts) = 2
    /\ Len(registers_names) = 2 /\ registers_names[1] # registers_names[2]
    /\ table[1].row[registers_names[1]] # table[1].row[registers_names[2]]
    /\ result_counts[1].freq = result_counts[2].freq

\* C5: the rows returned are the per-key rows in some order, $freq never
\* increases from a row to the next, and the index is 0, 1, ..., keys - 1.
C5_Sorted ==
    pc = "returned" =>
        /\ \E f \in Perms(Len(result_counts)) :
              /\ Len(table) = Len(result_counts)
              /\ \A r \in DOMAIN table : table[r].row = DataFrame(out_dict)[f[r]].row
        /\ \A r \in 1..(Len(table) - 1) :
              table[r].row["$freq"] >= table[r + 1].row["$freq"]
        /\ \A r \in DOMAIN table : table[r].index = r - 1

C5_Witness ==
    /\ pc = "returned" /\ Len(table) = 2
    /\ result_counts[1].freq < result_counts[2].freq
    /\ table[1].row["$freq"] > table[2].row["$freq"]

====
